---------------------------- MODULE Spec2Model ----------------------------
(***************************************************************************)
(* Model of bdmt_parser (src/bdmt_parser/__init__.py):                     *)
(*   BDMTMetadata.__init__   the extractor (existence check, XML parse,    *)
(*                           namespaced find, strip / "blu-ray" filter)    *)
(*   find_bdmt_eng_file      the locator (two fixed paths, two rglob walks)*)
(*   get_disc_title          the entry point (locate, construct, swallow)  *)
(*                                                                         *)
(* Library behaviour is that of CPython 3.11 on a case-sensitive POSIX     *)
(* file system: os.path.exists, pathlib.Path.exists / rglob,               *)
(* xml.etree.ElementTree.parse / Element.find, str.strip / str.lower.      *)
(*                                                                         *)
(* Values.  Optional values are tuples: None is <<>> and a present value v *)
(* is <<v>>.  A text is a sequence of one-character strings.  A path is    *)
(* the sequence of its components below the `directory` argument.          *)
(***************************************************************************)
EXTENDS Naturals, Sequences, FiniteSets

VARIABLES
    fs,         \* the tree below `directory`: path -> entry
    scanOrder,  \* the order in which os.scandir lists the sub-directories
    last,       \* outcome of the last locator / entry-point call since fs changed
    obj         \* outcome of the last BDMTMetadata(...) construction since fs changed

vars == <<fs, scanOrder, last, obj>>

None == <<>>
Some(v) == <<v>>

-----------------------------------------------------------------------------
(* Texts: str.strip() and str.lower()                                      *)

Whitespace == {" ", "\t", "\n"}

UpperLetters == <<"A","B","C","D","E","F","G","H","I","J","K","L","M",
                  "N","O","P","Q","R","S","T","U","V","W","X","Y","Z">>
LowerLetters == <<"a","b","c","d","e","f","g","h","i","j","k","l","m",
                  "n","o","p","q","r","s","t","u","v","w","x","y","z">>

IsUpper(c) == \E i \in DOMAIN UpperLetters : UpperLetters[i] = c
IsLower(c) == \E i \in DOMAIN LowerLetters : LowerLetters[i] = c

LowerChar(c) ==
    IF IsUpper(c)
    THEN LowerLetters[CHOOSE i \in DOMAIN UpperLetters : UpperLetters[i] = c]
    ELSE c

UpperChar(c) ==
    IF IsLower(c)
    THEN UpperLetters[CHOOSE i \in DOMAIN LowerLetters : LowerLetters[i] = c]
    ELSE c

\* str.lower(): every cased character mapped to lower case.
lower(s) == [i \in DOMAIN s |-> LowerChar(s[i])]

RECURSIVE lstrip(_)
lstrip(s) ==
    IF s = <<>> THEN s
    ELSE IF Head(s) \in Whitespace THEN lstrip(Tail(s)) ELSE s

RECURSIVE rstrip(_)
rstrip(s) ==
    IF s = <<>> THEN s
    ELSE IF s[Len(s)] \in Whitespace THEN rstrip(SubSeq(s, 1, Len(s) - 1)) ELSE s

\* str.strip(): leading and trailing whitespace removed.
strip(s) == rstrip(lstrip(s))

\* The literal of line 44.
BluRay == <<"b","l","u","-","r","a","y">>

\* A plausible slip: the placeholder is compared without lower().
normalize_title_CaseSensitive(text) ==
    IF text = None \/ text[1] = <<>> THEN None
    ELSE LET title == strip(text[1])
         IN  IF title # <<>> /\ title # BluRay THEN Some(title) ELSE None

\* Lines 41-45: title_node.text (None, or a text) to disc_title.
normalize_title(text) ==
    IF text = None \/ text[1] = <<>> THEN None
    ELSE LET title == strip(text[1])
         IN  IF title # <<>> /\ lower(title) # BluRay THEN Some(title) ELSE None

-----------------------------------------------------------------------------
(* XML documents as xml.etree.ElementTree sees them                        *)
(*                                                                         *)
(* A tag is [ns, local] (ElementTree's "{ns}local").  A document is its    *)
(* root element's tag and the root's descendants in document order; each   *)
(* descendant names its parent (0 is the root) and carries Element.text:   *)
(* the text between its start tag and its first child, None when there is  *)
(* none.  `wf` is whether the bytes are a well-formed XML document.        *)

DiscInfoNs == "urn:BDA:bdmv;discinfo"

\* ns = {'di': 'urn:BDA:bdmv;discinfo'} (line 36): a prefixed step resolved.
di(local) == [ns |-> DiscInfoNs, local |-> local]

\* An element of the disc library namespace: the usual root of bdmt_*.xml.
DiscLib == [ns |-> "urn:BDA:bdmv;disclib", local |-> "disclib"]

Node(tag, parent, text) == [tag |-> tag, parent |-> parent, text |-> text]

Doc(root, nodes) == [wf |-> TRUE, root |-> root, nodes |-> nodes]

NoContent == [wf |-> FALSE, root |-> DiscLib, nodes |-> <<>>]

\* A file-system entry: nothing, a directory, or a regular file.  `access`
\* is the permission to search/list a directory or to read a file.
NoEntry == [kind |-> "none", access |-> FALSE, content |-> NoContent]
DirEntry(access) == [kind |-> "dir", access |-> access, content |-> NoContent]
FileEntry(access, content) == [kind |-> "file", access |-> access, content |-> content]

\* Element.iter() below the root, the root itself left out: ElementPath's
\* `//` step yields `e` for e in elem.iter(tag) only `if e is not elem`.
select_descendant(doc, tag) ==
    SelectSeq([i \in 1..Len(doc.nodes) |-> i], LAMBDA i : doc.nodes[i].tag = tag)

\* The children of element e that carry `tag`, in document order.
children(doc, e, tag) ==
    SelectSeq([i \in 1..Len(doc.nodes) |-> i],
              LAMBDA i : doc.nodes[i].parent = e /\ doc.nodes[i].tag = tag)

\* ElementPath's `/tag` step: for elem in result: for e in elem: if e.tag == tag.
RECURSIVE select_child(_, _, _)
select_child(doc, result, tag) ==
    IF result = <<>> THEN <<>>
    ELSE children(doc, Head(result), tag) \o select_child(doc, Tail(result), tag)

\* root.findall('.//di:discinfo/di:title/di:name', ns), in generation order.
findall(doc) ==
    select_child(doc,
        select_child(doc, select_descendant(doc, di("discinfo")), di("title")),
        di("name"))

\* A plausible slip: the last match is taken instead of the first.
find_Last(doc) ==
    LET m == findall(doc) IN IF m = <<>> THEN 0 ELSE m[Len(m)]

\* Line 40: root.find(...): the first match, 0 for None.
find(doc) ==
    LET m == findall(doc) IN IF m = <<>> THEN 0 ELSE Head(m)

-----------------------------------------------------------------------------
(* The file system below `directory`                                       *)

LowerName == "bdmt_eng.xml"
UpperName == "BDMT_ENG.XML"
MixedName == "Bdmt_Eng.xml"

Root == <<>>
Dirs == {<<"BDMV">>, <<"BDMV", "META">>, <<"META">>, <<"sub">>, <<"alt">>}
Leaves == {<<"BDMV", "META", LowerName>>, <<"META", LowerName>>, <<LowerName>>,
           <<"sub", LowerName>>, <<"alt", LowerName>>,
           <<UpperName>>, <<MixedName>>}
AllPaths == {Root} \cup Dirs \cup Leaves

Parent(p) == SubSeq(p, 1, Len(p) - 1)

\* What a path names; a path outside the modelled tree names nothing.
EntryAt(tree, p) == IF p \in AllPaths THEN tree[p] ELSE NoEntry

\* stat(2) on `directory`/p: the components are resolved left to right, and
\* the first one that is missing, is no directory, or may not be searched
\* decides the error.
RECURSIVE stat_from(_, _, _)
stat_from(tree, p, k) ==
    LET e == EntryAt(tree, SubSeq(p, 1, k))
    IN  IF e.kind = "none" THEN "ENOENT"
        ELSE IF k = Len(p) THEN "ok"
        ELSE IF e.kind # "dir" THEN "ENOTDIR"
        ELSE IF ~e.access THEN "EACCES"
        ELSE stat_from(tree, p, k + 1)

stat(tree, p) == stat_from(tree, p, 0)

\* pathlib.Path.exists() (lines 66, 71, and rglob's literal step): "true",
\* "false" for the errors pathlib ignores (ENOENT, ENOTDIR), and the
\* exception it lets through for EACCES.
Path_exists(tree, p) ==
    LET r == stat(tree, p)
    IN  IF r = "ok" THEN "true"
        ELSE IF r \in {"ENOENT", "ENOTDIR"} THEN "false"
        ELSE "PermissionError"

\* os.path.exists() (line 24): False on every OSError, EACCES included.
os_path_exists(tree, p) == stat(tree, p) = "ok"

\* Line 32: ET.parse(filename) on an existing entry: the exception it raises,
\* "none" when it returns the tree.
ET_parse(entry) ==
    IF entry.kind = "dir" THEN "IsADirectoryError"
    ELSE IF ~entry.access THEN "PermissionError"
    ELSE IF ~entry.content.wf THEN "ParseError"
    ELSE "none"

\* A plausible slip: only the parser's own error is caught.
caught_ParseErrorOnly(exc) == exc = "ParseError"

\* Line 47: `except Exception` catches every exception ET.parse raises.
caught(exc) == exc \in {"ParseError", "IsADirectoryError", "PermissionError"}

\* The outcome of a construction: the exception that left it ("none" for a
\* normal return) and the object's two attributes.
Raised(exc) == [exc |-> exc, filename |-> None, disc_title |-> None]
Object(filename, disc_title) ==
    [exc |-> "none", filename |-> Some(filename), disc_title |-> disc_title]

\* Lines 31-45: the body of the try block once ET.parse has returned.
extract_title(doc) ==
    LET title_node == find(doc)
    IN  IF title_node = 0 THEN None
        ELSE normalize_title(doc.nodes[title_node].text)

\* Lines 17-49: BDMTMetadata(filename).
BDMTMetadata(tree, filename) ==
    IF ~os_path_exists(tree, filename) THEN Raised("FileNotFoundError")
    ELSE LET entry == EntryAt(tree, filename)
             exc == ET_parse(entry)
         IN  IF exc = "none" THEN Object(filename, extract_title(entry.content))
             ELSE IF caught(exc) THEN Object(filename, None)
             ELSE Raised(exc)

\* The sub-directories of directory p in the order os.scandir lists them.
subdirs(tree, order, p) ==
    SelectSeq([i \in DOMAIN order |-> Append(p, order[i])],
              LAMBDA q : q \in Dirs /\ tree[q].kind = "dir")

\* pathlib's _RecursiveWildcardSelector._iterate_directories: the directory
\* itself, then each sub-directory's walk; a directory that may not be
\* listed (PermissionError from scandir) contributes only itself.
RECURSIVE iterate_directories(_, _, _)
RECURSIVE iterate_each(_, _, _)
iterate_directories(tree, order, p) ==
    <<p>> \o (IF tree[p].access THEN iterate_each(tree, order, subdirs(tree, order, p))
              ELSE <<>>)
iterate_each(tree, order, ds) ==
    IF ds = <<>> THEN <<>>
    ELSE iterate_directories(tree, order, Head(ds)) \o iterate_each(tree, order, Tail(ds))

\* pathlib's _PreciseSelector: start/name when it exists; a PermissionError
\* is swallowed.
precise_select(tree, start, name) ==
    IF Path_exists(tree, Append(start, name)) = "true"
    THEN <<Append(start, name)>> ELSE <<>>

RECURSIVE select_each(_, _, _)
select_each(tree, starts, name) ==
    IF starts = <<>> THEN <<>>
    ELSE precise_select(tree, Head(starts), name) \o select_each(tree, Tail(starts), name)

\* directory_path.rglob(name) (lines 75, 77): nothing unless `directory` is
\* a directory; else the matches in the order of the walk.
rglob(tree, order, name) ==
    IF tree[Root].kind # "dir" THEN <<>>
    ELSE select_each(tree, iterate_directories(tree, order, Root), name)

\* The outcome of a call: the exception that left it ("none" for a normal
\* return) and the value returned.
Return(v) == [exc |-> "none", val |-> v]
Raise(exc) == [exc |-> exc, val |-> None]

FirstOf(matches, otherwise) ==
    IF matches # <<>> THEN Return(Some(Head(matches))) ELSE otherwise

\* A plausible slip: the two recursive walks are made in the other order.
find_bdmt_eng_file_UpperFirst(tree, order) ==
    LET c1 == Path_exists(tree, <<"BDMV", "META", LowerName>>)
        c2 == Path_exists(tree, <<"META", LowerName>>)
    IN  IF c1 = "PermissionError" THEN Raise(c1)
        ELSE IF c1 = "true" THEN Return(Some(<<"BDMV", "META", LowerName>>))
        ELSE IF c2 = "PermissionError" THEN Raise(c2)
        ELSE IF c2 = "true" THEN Return(Some(<<"META", LowerName>>))
        ELSE FirstOf(rglob(tree, order, UpperName),
                     FirstOf(rglob(tree, order, LowerName), Return(None)))

\* Lines 56-80.
find_bdmt_eng_file(tree, order) ==
    LET c1 == Path_exists(tree, <<"BDMV", "META", LowerName>>)
        c2 == Path_exists(tree, <<"META", LowerName>>)
    IN  IF c1 = "PermissionError" THEN Raise(c1)
        ELSE IF c1 = "true" THEN Return(Some(<<"BDMV", "META", LowerName>>))
        ELSE IF c2 = "PermissionError" THEN Raise(c2)
        ELSE IF c2 = "true" THEN Return(Some(<<"META", LowerName>>))
        ELSE FirstOf(rglob(tree, order, LowerName),
                     FirstOf(rglob(tree, order, UpperName), Return(None)))

\* A plausible slip: the handler names the one documented exception only.
swallowed_FileNotFoundOnly(exc) == exc = "FileNotFoundError"

\* Line 97: `except Exception` catches whatever the two calls raise.
swallowed(exc) == exc \in {"FileNotFoundError", "PermissionError",
                           "ParseError", "IsADirectoryError"}

\* Lines 94-95 on a located path; `gone` is whether another process removed
\* the entry between the locator's check and the constructor's.
title_of(tree, path, gone) ==
    LET m == BDMTMetadata(IF gone THEN [tree EXCEPT ![path] = NoEntry] ELSE tree, path)
    IN  IF m.exc = "none" THEN Return(m.disc_title)
        ELSE IF swallowed(m.exc) THEN Return(None)
        ELSE Raise(m.exc)

\* A plausible slip: when the located file gives no title, the other
\* lower-case candidates are tried.
get_disc_title_Fallback(tree, order, gone) ==
    LET f == find_bdmt_eng_file(tree, order)
        cands == {p \in Leaves : p[Len(p)] = LowerName /\
                                 title_of(tree, p, FALSE).val # None}
    IN  IF f.exc # "none" \/ f.val = None THEN Return(None)
        ELSE IF title_of(tree, f.val[1], gone).val # None \/ cands = {}
             THEN title_of(tree, f.val[1], gone)
        ELSE title_of(tree, CHOOSE p \in cands : TRUE, FALSE)

\* A plausible slip: the recursive walk is kept between calls and resumed,
\* so a call that follows another one skips the entry that one located.
get_disc_title_ResumedWalk(tree, order, gone) ==
    LET f == find_bdmt_eng_file(tree, order)
        g == IF last.op = "title" /\ f.exc = "none" /\ f.val # None
             THEN find_bdmt_eng_file([tree EXCEPT ![f.val[1]] = NoEntry], order)
             ELSE f
    IN  IF g.exc # "none" \/ g.val = None THEN Return(None)
        ELSE title_of(tree, g.val[1], gone)

\* Lines 83-99.
get_disc_title(tree, order, gone) ==
    LET f == find_bdmt_eng_file(tree, order)
    IN  IF f.exc # "none"
        THEN (IF swallowed(f.exc) THEN Return(None) ELSE Raise(f.exc))
        ELSE IF f.val = None THEN Return(None)
        ELSE title_of(tree, f.val[1], gone)

-----------------------------------------------------------------------------
(* Bounds and sample values                                                *)

MaxEntries == 2   \* candidate entries below `directory`
MaxDenied == 1    \* directories without search/list permission
MaxCalls == 2     \* counted consecutive get_disc_title calls
MaxNodes == 4     \* elements below the root of a free-form document
MaxPathNodes == 6 \* elements below the root of a document of path elements
MaxPad == 1       \* whitespace characters added on each side of a title

Matrix == <<"M","A","T","R","I","X">>
Inception == <<"I","n","c","e","p","t","i","o","n">>

\* The usual layout: disclib / discinfo / title / name.
StdDoc(text) ==
    Doc(DiscLib, << Node(di("discinfo"), 0, None),
                    Node(di("title"), 1, None),
                    Node(di("name"), 2, text) >>)

MetaFile == <<"BDMV", "META", LowerName>>

\* What a metadata file below `directory` may hold: bytes that are no XML,
\* or the usual layout with one of two titles.
Contents == {NoContent, StdDoc(Some(Matrix)), StdDoc(Some(<<" ">> \o Inception \o <<" ">>))}

\* What may be created at a candidate path: a metadata file, or a directory
\* of that name.
EntriesFor(p) == {DirEntry(TRUE)} \cup {FileEntry(TRUE, c) : c \in Contents}

\* The directories whose permission changes.
Deniable == {Root, <<"BDMV">>, <<"sub">>}

\* os.scandir's order is the file system's: either order of the two
\* sub-directories that can both hold a match of the recursive search.
ScanOrders == {<<"BDMV", "META", "sub", "alt">>, <<"BDMV", "META", "alt", "sub">>}

Idle == [op |-> "idle", gone |-> FALSE, exc |-> "none", val |-> None, n |-> 0]
NoObj == [exc |-> "idle", filename |-> None, disc_title |-> None]

\* `directory` as a disc's directory: the directories of the layout, and no
\* candidate entry yet.
Skeleton == [p \in AllPaths |-> IF p \in {Root} \cup Dirs THEN DirEntry(TRUE) ELSE NoEntry]

\* `directory` missing (NoEntry), or naming a regular file.
Bare(e) == [p \in AllPaths |-> IF p = Root THEN e ELSE NoEntry]

-----------------------------------------------------------------------------
(* Spec: a directory tree that changes, and calls of the locator and of    *)
(* the entry point on it                                                   *)

Init ==
    /\ fs = Skeleton
    /\ scanOrder \in ScanOrders
    /\ last = Idle
    /\ obj = NoObj

Create(p, e) ==
    /\ fs[Parent(p)].kind = "dir"
    /\ fs[p].kind = "none"
    /\ Cardinality({q \in Leaves : fs[q].kind # "none"}) < MaxEntries
    /\ fs' = [fs EXCEPT ![p] = e]
    /\ last' = Idle
    /\ UNCHANGED <<scanOrder, obj>>

Remove(p) ==
    /\ fs[p].kind # "none"
    /\ fs' = [fs EXCEPT ![p] = NoEntry]
    /\ last' = Idle
    /\ UNCHANGED <<scanOrder, obj>>

\* `directory` itself replaced: removed, a regular file, or the layout again.
ReplaceRoot(tree) ==
    /\ \A q \in Leaves : fs[q].kind = "none"
    /\ \A q \in {Root} \cup Dirs : fs[q].kind = "dir" => fs[q].access
    /\ fs # tree
    /\ fs' = tree
    /\ last' = Idle
    /\ UNCHANGED <<scanOrder, obj>>

Chmod(p) ==
    /\ fs[p].kind = "dir"
    /\ fs[p].access =>
         Cardinality({q \in Deniable : fs[q].kind = "dir" /\ ~fs[q].access}) < MaxDenied
    /\ fs' = [fs EXCEPT ![p].access = ~fs[p].access]
    /\ last' = Idle
    /\ UNCHANGED <<scanOrder, obj>>

FindFile ==
    /\ LET r == find_bdmt_eng_file(fs, scanOrder)
       IN  last' = [op |-> "find", gone |-> FALSE, exc |-> r.exc, val |-> r.val, n |-> 0]
    /\ UNCHANGED <<fs, scanOrder, obj>>

GetDiscTitle ==
    /\ last.n < MaxCalls
    /\ LET r == get_disc_title(fs, scanOrder, FALSE)
       IN  last' = [op |-> "title", gone |-> FALSE, exc |-> r.exc, val |-> r.val,
                    n |-> last.n + 1]
    /\ UNCHANGED <<fs, scanOrder, obj>>

\* The same call while another process removes the located entry between
\* the locator's return and the constructor's existence check.
GetDiscTitleRaced ==
    /\ find_bdmt_eng_file(fs, scanOrder).val # None
    /\ LET r == get_disc_title(fs, scanOrder, TRUE)
       IN  last' = [op |-> "title", gone |-> TRUE, exc |-> r.exc, val |-> r.val, n |-> 0]
    /\ UNCHANGED <<fs, scanOrder, obj>>

Next ==
    \/ \E p \in Leaves : \E e \in EntriesFor(p) : Create(p, e)
    \/ \E p \in Leaves : Remove(p)
    \/ \E tree \in {Skeleton, Bare(NoEntry), Bare(FileEntry(TRUE, NoContent))} : ReplaceRoot(tree)
    \/ \E p \in Deniable : Chmod(p)
    \/ FindFile
    \/ GetDiscTitle
    \/ GetDiscTitleRaced

Spec == Init /\ [][Next]_vars

-----------------------------------------------------------------------------
(* SpecText: one metadata file at BDMV/META/bdmt_eng.xml in the usual      *)
(* layout, whose title text, bytes and permissions change, and             *)
(* constructions of BDMTMetadata on it                                     *)

\* The title texts the file starts with; padding and case are then varied.
Cores == {BluRay, <<"b","l","u","r","a","y">>, <<"a"," ","b">>}

\* The whitespace characters used as padding.
Pads == {" ", "\n"}

TreeWith(e) == [Skeleton EXCEPT ![MetaFile] = e]

\* Element.text of the name element in the usual layout, as a text.
NameText == LET t == fs[MetaFile].content.nodes[3].text
            IN  IF t = None THEN <<>> ELSE t[1]

IsStdFile == fs[MetaFile].kind = "file" /\ Len(fs[MetaFile].content.nodes) = 3

SetNameText(t) ==
    /\ fs' = [fs EXCEPT ![MetaFile].content.nodes[3].text = Some(t)]
    /\ obj' = NoObj
    /\ UNCHANGED <<scanOrder, last>>

InitText ==
    /\ fs \in {TreeWith(FileEntry(TRUE, StdDoc(t))) : t \in {None} \cup {Some(c) : c \in Cores}}
    /\ scanOrder = <<"BDMV", "META", "sub", "alt">>
    /\ last = Idle
    /\ obj = NoObj

PadLeft(c) ==
    /\ IsStdFile
    /\ Len(NameText) - Len(lstrip(NameText)) < MaxPad
    /\ SetNameText(<<c>> \o NameText)

PadRight(c) ==
    /\ IsStdFile
    /\ Len(NameText) - Len(rstrip(NameText)) < MaxPad
    /\ SetNameText(NameText \o <<c>>)

ToggleCase(i) ==
    /\ IsStdFile
    /\ i \in 1..Len(NameText)
    /\ IsUpper(NameText[i]) \/ IsLower(NameText[i])
    /\ SetNameText([NameText EXCEPT ![i] = IF IsUpper(@) THEN LowerChar(@) ELSE UpperChar(@)])

\* The file's bytes damaged (truncated, overwritten): no longer well-formed.
Corrupt ==
    /\ fs[MetaFile].kind = "file"
    /\ fs[MetaFile].content.wf
    /\ fs' = [fs EXCEPT ![MetaFile].content.wf = FALSE]
    /\ obj' = NoObj
    /\ UNCHANGED <<scanOrder, last>>

\* Read permission of the file, or search permission of its directory.
ChmodAt(p) ==
    /\ fs[p].kind # "none"
    /\ fs' = [fs EXCEPT ![p].access = ~fs[p].access]
    /\ obj' = NoObj
    /\ UNCHANGED <<scanOrder, last>>

\* The file replaced by a directory of the same name, or removed.
ReplaceFile(e) ==
    /\ fs[MetaFile].kind = "file"
    /\ fs' = [fs EXCEPT ![MetaFile] = e]
    /\ obj' = NoObj
    /\ UNCHANGED <<scanOrder, last>>

Construct ==
    /\ obj' = BDMTMetadata(fs, MetaFile)
    /\ UNCHANGED <<fs, scanOrder, last>>

NextText ==
    \/ \E c \in Pads : PadLeft(c)
    \/ \E c \in Pads : PadRight(c)
    \/ \E i \in 1..Len(BluRay) : ToggleCase(i)
    \/ Corrupt
    \/ \E p \in {MetaFile, Parent(MetaFile)} : ChmodAt(p)
    \/ \E e \in {DirEntry(TRUE), NoEntry} : ReplaceFile(e)
    \/ Construct

SpecText == InitText /\ [][NextText]_vars

-----------------------------------------------------------------------------
(* SpecDoc: one readable, well-formed metadata file whose element tree     *)
(* grows, and constructions of BDMTMetadata on it                          *)

Tags == {di("discinfo"), di("title"), di("name"), DiscLib}

Digits == <<"1","2","3","4","5","6","7","8","9">>

\* The texts a name element may get as element number i: none, the
\* placeholder, or a title of its own.
NameTexts(i) == {None, Some(<<"B","l","u","-","r","a","y">>), Some(<<"T", Digits[i]>>)}

DocNodes == fs[MetaFile].content.nodes

\* The open elements when the document ends: the last element and its
\* ancestors, and the root (0).
RECURSIVE open_path(_, _)
open_path(nodes, i) == IF i = 0 THEN {0} ELSE {i} \cup open_path(nodes, nodes[i].parent)

InitDoc ==
    /\ fs \in {TreeWith(FileEntry(TRUE, Doc(r, <<>>))) : r \in {DiscLib, di("discinfo")}}
    /\ scanOrder = <<"BDMV", "META", "sub", "alt">>
    /\ last = Idle
    /\ obj = NoObj

TagOf(nodes, root, i) == IF i = 0 THEN root ELSE nodes[i].tag

\* One more element written at the end of the document, as a child of an
\* element that is still open; a name element holds text only.
AppendNode(tag, parent, text) ==
    /\ Len(DocNodes) < MaxNodes
    /\ parent \in open_path(DocNodes, Len(DocNodes))
    /\ parent # 0 => DocNodes[parent].tag # di("name")
    /\ text \in (IF tag = di("name") THEN NameTexts(Len(DocNodes) + 1) ELSE {None})
    /\ fs' = [fs EXCEPT ![MetaFile].content.nodes = Append(@, Node(tag, parent, text))]
    /\ obj' = NoObj
    /\ UNCHANGED <<scanOrder, last>>

NextDoc ==
    \/ \E tag \in Tags : \E parent \in 0..MaxNodes :
         \E text \in NameTexts(Len(DocNodes) + 1) \cup {None} : AppendNode(tag, parent, text)
    \/ Construct

SpecDoc == InitDoc /\ [][NextDoc]_vars

-----------------------------------------------------------------------------
(* SpecOrder: documents with several discinfo / title / name elements,     *)
(* nested in each other, and constructions of BDMTMetadata on them         *)

\* The elements of the path only: discinfo below the root, in a discinfo or
\* in a title; title in a discinfo; name in a title.
ChildTags(tag) ==
    IF tag = DiscLib THEN {di("discinfo")}
    ELSE IF tag = di("discinfo") THEN {di("discinfo"), di("title")}
    ELSE IF tag = di("title") THEN {di("name"), di("discinfo")}
    ELSE {}

InitOrder ==
    /\ fs = TreeWith(FileEntry(TRUE, Doc(DiscLib, <<>>)))
    /\ scanOrder = <<"BDMV", "META", "sub", "alt">>
    /\ last = Idle
    /\ obj = NoObj

AppendPathNode(tag, parent, text) ==
    /\ Len(DocNodes) < MaxPathNodes
    /\ parent \in open_path(DocNodes, Len(DocNodes))
    /\ tag \in ChildTags(TagOf(DocNodes, DiscLib, parent))
    /\ text \in (IF tag = di("name") THEN NameTexts(Len(DocNodes) + 1) ELSE {None})
    /\ fs' = [fs EXCEPT ![MetaFile].content.nodes = Append(@, Node(tag, parent, text))]
    /\ obj' = NoObj
    /\ UNCHANGED <<scanOrder, last>>

NextOrder ==
    \/ \E tag \in Tags : \E parent \in 0..MaxPathNodes :
         \E text \in NameTexts(Len(DocNodes) + 1) \cup {None} : AppendPathNode(tag, parent, text)
    \/ Construct

SpecOrder == InitOrder /\ [][NextOrder]_vars

-----------------------------------------------------------------------------
(* What the claims speak of, stated from the file system and the document  *)
(* alone, without the operators that model the code                        *)

FirstFixed == <<"BDMV", "META", LowerName>>
SecondFixed == <<"META", LowerName>>
LowerPaths == {p \in Leaves : p[Len(p)] = LowerName}
UpperPaths == {p \in Leaves : p[Len(p)] = UpperName}

\* The entry exists and every directory on the way to it may be searched.
Visible(p) ==
    /\ fs[p].kind # "none"
    /\ \A k \in 0..(Len(p) - 1) : fs[SubSeq(p, 1, k)].kind = "dir" /\ fs[SubSeq(p, 1, k)].access

\* The title a candidate entry of Spec holds.
TitleIn(e) ==
    IF e = FileEntry(TRUE, StdDoc(Some(Matrix))) THEN Some(Matrix)
    ELSE IF e = FileEntry(TRUE, StdDoc(Some(<<" ">> \o Inception \o <<" ">>))) THEN Some(Inception)
    ELSE None

\* The candidates in the order of the four lookups; the recursive search
\* visits `directory` first and then its sub-directories in scandir order.
Priority ==
    <<FirstFixed, SecondFixed, <<LowerName>>>>
    \o SelectSeq([i \in DOMAIN scanOrder |-> <<scanOrder[i], LowerName>>],
                 LAMBDA p : p \in Leaves \ {SecondFixed})
    \o << <<UpperName>> >>

VisibleCandidates == SelectSeq(Priority, Visible)

\* Two characters that differ at most in case.
SameLetter(c, d) ==
    c = d \/ \E i \in DOMAIN UpperLetters : {c, d} = {UpperLetters[i], LowerLetters[i]}

CaselessEq(a, b) == Len(a) = Len(b) /\ \A k \in 1..Len(a) : SameLetter(a[k], b[k])

\* v is t without its leading and trailing whitespace.
IsTrimOf(v, t) ==
    \E i \in 1..(Len(t) + 1) : \E j \in 0..Len(t) :
        /\ v = SubSeq(t, i, j)
        /\ \A k \in 1..(i - 1) : t[k] \in Whitespace
        /\ \A k \in (j + 1)..Len(t) : t[k] \in Whitespace
        /\ v # <<>> => v[1] \notin Whitespace /\ v[Len(v)] \notin Whitespace

\* The name elements on a discinfo / title / name path, the root counted.
PathNames ==
    {n \in 1..Len(DocNodes) :
        /\ DocNodes[n].tag = di("name")
        /\ DocNodes[n].parent # 0
        /\ DocNodes[DocNodes[n].parent].tag = di("title")
        /\ TagOf(DocNodes, fs[MetaFile].content.root,
                 DocNodes[DocNodes[n].parent].parent) = di("discinfo")}

TitleElem(n) == DocNodes[n].parent
DiscInfoElem(n) == DocNodes[DocNodes[n].parent].parent

Least(S) == CHOOSE x \in S : \A y \in S : x <= y

\* The title a name element of SpecDoc / SpecOrder holds.
TitleOfName(n) ==
    LET t == DocNodes[n].text
    IN  IF t = None \/ t = Some(<<"B","l","u","-","r","a","y">>) THEN None ELSE t

MetaFileParsed ==
    /\ Visible(MetaFile)
    /\ fs[MetaFile].kind = "file" /\ fs[MetaFile].access /\ fs[MetaFile].content.wf

-----------------------------------------------------------------------------
(* The claims                                                              *)

\* C1: get_disc_title never raises: whatever the directory holds, and also
\* when the located entry disappears before it is opened, the call returns
\* a title or None.
C1_NeverRaises == last.op = "title" => last.exc = "none"

\* A call that located an entry which was gone when BDMTMetadata looked.
C1_Witness == last.op = "title" /\ last.gone /\ last.exc = "none" /\ last.val = None

C6_Locator ==
    last.op = "find" =>
        /\ last.exc = "none"
        /\ last.val = None <=>
              \/ fs[Root].kind # "dir"
              \/ ~fs[Root].access
              \/ \A p \in LowerPaths \cup UpperPaths : fs[p].kind = "none"
        /\ last.val # None =>
              /\ last.val[1] \in LowerPaths \cup UpperPaths
              /\ fs[last.val[1]].kind # "none"

\* C7: a fixed path that exists as a directory does not match.
C7_FileOnly ==
    (last.op = "find" /\ last.exc = "none") =>
        /\ fs[FirstFixed].kind = "dir" => last.val # Some(FirstFixed)
        /\ fs[SecondFixed].kind = "dir" => last.val # Some(SecondFixed)

C9_NoFallback ==
    (last.op = "title" /\ ~last.gone) =>
        /\ last.val # None =>
              VisibleCandidates # <<>> /\ last.val = TitleIn(fs[Head(VisibleCandidates)])
        /\ (VisibleCandidates # <<>> /\ TitleIn(fs[Head(VisibleCandidates)]) = None)
              => last.val = None
        /\ (VisibleCandidates # <<>> /\ \A d \in Deniable : fs[d].access)
              => last.val = TitleIn(fs[Head(VisibleCandidates)])

\* The first fixed path holds no title, the second one does, and the call
\* returned None.
C9_Witness ==
    /\ last.op = "title" /\ ~last.gone /\ last.val = None
    /\ Visible(FirstFixed) /\ TitleIn(fs[FirstFixed]) = None
    /\ Visible(SecondFixed) /\ TitleIn(fs[SecondFixed]) # None

\* C3: on a readable, well-formed file in the usual layout, disc_title is
\* the name element's text without its surrounding whitespace, and None
\* when that is empty or differs from "blu-ray" at most in case; so a
\* title is never empty, never padded, never the placeholder.
C3_Title ==
    (obj.exc = "none" /\ MetaFileParsed) =>
        /\ obj.disc_title # None =>
              /\ IsTrimOf(obj.disc_title[1], NameText)
              /\ obj.disc_title[1] # <<>>
              /\ ~CaselessEq(obj.disc_title[1], BluRay)
        /\ obj.disc_title = None =>
              \A i \in 1..Len(NameText) : \A j \in i..Len(NameText) :
                  IsTrimOf(SubSeq(NameText, i, j), NameText)
                      => CaselessEq(SubSeq(NameText, i, j), BluRay)

\* The placeholder in capitals and padded on both sides gave no title.
C3_Witness ==
    /\ obj.exc = "none" /\ MetaFileParsed /\ obj.disc_title = None
    /\ NameText = <<" ","B","L","U","-","R","A","Y","\n">>

C5_Lookup ==
    obj.exc = "none" =>
        /\ PathNames = {} => obj.disc_title = None
        /\ \A n \in PathNames : PathNames = {n} => obj.disc_title = TitleOfName(n)

\* C10 as claimed: the first name element of a path in document order
\* decides the title.
C10_Original ==
    (obj.exc = "none" /\ PathNames # {}) => obj.disc_title = TitleOfName(Least(PathNames))

\* C10 as amended: the match that decides is the first in ElementTree's
\* search order: of the discinfo elements below the root that lead to a
\* name, the first in document order; of its titles that hold a name, the
\* first; of that title's names, the first.
C10_FirstMatch ==
    (obj.exc = "none" /\ PathNames # {}) =>
        LET d == Least({DiscInfoElem(n) : n \in PathNames})
            t == Least({TitleElem(n) : n \in {m \in PathNames : DiscInfoElem(m) = d}})
            n == Least({m \in PathNames : TitleElem(m) = t})
        IN  obj.disc_title = TitleOfName(n)

\* Two matches, the deciding one the placeholder and a later one a title:
\* no title.
C10_Witness ==
    /\ obj.exc = "none" /\ obj.disc_title = None
    /\ \E n \in PathNames : \E m \in PathNames :
          n < m /\ DocNodes[n].text # None /\ TitleOfName(n) = None /\ TitleOfName(m) # None

=============================================================================
